---- MODULE Spec2Model ----
(***************************************************************************)
(* A model of app_3D_sludge.py: the Streamlit script that interpolates     *)
(* sparse sludge-height samples onto a square mesh over a circular tank,   *)
(* masks the mesh to the tank footprint and composes a Plotly 3D scene.    *)
(*                                                                         *)
(* Numbers.  Horizontal coordinates are exact rationals: sample            *)
(* coordinates and the radius are whole metres, and a mesh coordinate is   *)
(* kept as its numerator over the common denominator Den(grid_points), so  *)
(* np.linspace is computed without rounding.  Heights are whole tenths of  *)
(* a metre, so the label offset 0.2 is the integer 2.                      *)
(*                                                                         *)
(* scipy's griddata(method='cubic') is library code.  The model computes   *)
(* what decides the script's control flow and the shape of its result:     *)
(* whether the Delaunay triangulation of the samples exists (otherwise     *)
(* Qhull raises), and which mesh nodes lie in the convex hull of the       *)
(* samples (the others come back NaN).  The height of a node inside the    *)
(* hull is kept as the term Cubic(...), the Clough-Tocher interpolant of   *)
(* the given samples evaluated at that node, and is not evaluated.         *)
(***************************************************************************)
EXTENDS Integers, Sequences, FiniteSets, TLC

\* Longest uploaded table the model enumerates.
MaxSamples == 3

\* Largest tank radius (metres) the model enumerates; the widget allows any >= 0.1.
MaxRadius == 3

\* Largest mesh resolution the model enumerates; resolutions start at 1.
MaxRes == 3

\* Rows of the manual-input table.
NumManualRows == 24

\* Vertical offset of a label above its sample, in tenths of a metre (0.2).
LabelOffset == 2

\* Python's None (data, grid_z, fig) and an unbound name.
None == <<>>

\* numpy's nan as a grid cell.
NaN == [def |-> FALSE]

\* The rows an uploaded spreadsheet may hold: a point at the centre, points on
\* the axes, points on the diagonal (collinear with the centre) and a point
\* far from the others.
SampleChoices ==
  { [X |-> 0,  Y |-> 0,  Z |-> 10],
    [X |-> 2,  Y |-> 0,  Z |-> 15],
    [X |-> 0,  Y |-> 2,  Z |-> 20],
    [X |-> -2, Y |-> -2, Z |-> 5],
    [X |-> 2,  Y |-> 2,  Z |-> 10],
    [X |-> 3,  Y |-> -1, Z |-> 0] }

Radii == 1..MaxRadius

Resolutions == 1..MaxRes

\* All tables of 1..n rows over SampleChoices.
Tables(n) == UNION { [1..k -> SampleChoices] : k \in 1..n }

\* pd.DataFrame({"X": [0.0]*24, "Y": [0.0]*24, "Z": [0.0]*24})
ManualTable == [i \in 1..NumManualRows |-> [X |-> 0, Y |-> 0, Z |-> 0]]

\* data['X'].values and its siblings.
Column(d, c) == [i \in 1..Len(d) |-> d[i][c]]

\* The common denominator of the mesh coordinates: num - 1 steps span the
\* interval; with num = 1 linspace returns the start alone.
Den(num) == IF num > 1 THEN num - 1 ELSE 1

\* Linspace with the index off by one: the coordinates start one step late.
LinspaceShifted(start, stop, num) ==
  [i \in 1..num |-> start * Den(num) + i * (stop - start)]

\* np.linspace(start, stop, num), as numerators over Den(num):
\* start + i * (stop - start) / (num - 1) for i = 0 .. num-1.
Linspace(start, stop, num) ==
  [i \in 1..num |-> start * Den(num) + (i - 1) * (stop - start)]

\* np.meshgrid(xs, ys)[0]: row i, column j holds xs[j].
MeshX(xs, ys) == [i \in 1..Len(ys) |-> [j \in 1..Len(xs) |-> xs[j]]]

\* np.meshgrid(xs, ys)[1]: row i, column j holds ys[i].
MeshY(xs, ys) == [i \in 1..Len(ys) |-> [j \in 1..Len(xs) |-> ys[i]]]

\* Twice the signed area of the triangle a, b, c.
Orient(ax, ay, bx, by, cx, cy) == (bx - ax) * (cy - ay) - (by - ay) * (cx - ax)

\* QhullError that only counts the rows: collinear tables would pass.
QhullErrorTooFew(xs, ys) == Len(xs) < 3

\* Qhull cannot build a Delaunay triangulation in the plane when the samples
\* span no triangle: fewer than three distinct points, or all on one line.
\* scipy raises QhullError, which the script's except clause catches.
QhullError(xs, ys) ==
  ~ \E i, j, k \in 1..Len(xs) :
       Orient(xs[i], ys[i], xs[j], ys[j], xs[k], ys[k]) # 0

\* The node (px/d, py/d) lies in the closed triangle of samples i, j, k.
InTriangle(xs, ys, i, j, k, px, py, d) ==
  LET o1 == Orient(d * xs[i], d * ys[i], d * xs[j], d * ys[j], px, py)
      o2 == Orient(d * xs[j], d * ys[j], d * xs[k], d * ys[k], px, py)
      o3 == Orient(d * xs[k], d * ys[k], d * xs[i], d * ys[i], px, py)
  IN  \/ (o1 >= 0 /\ o2 >= 0 /\ o3 >= 0)
      \/ (o1 <= 0 /\ o2 <= 0 /\ o3 <= 0)

\* The node (px/d, py/d) lies in the convex hull of the samples, where the
\* triangulation has a simplex to evaluate; outside it griddata yields nan.
InHull(xs, ys, px, py, d) ==
  \E i, j, k \in 1..Len(xs) :
     /\ i < j /\ j < k
     /\ Orient(xs[i], ys[i], xs[j], ys[j], xs[k], ys[k]) # 0
     /\ InTriangle(xs, ys, i, j, k, px, py, d)

\* The cubic interpolant of the samples at the node (px/d, py/d): a height
\* the model names and does not evaluate.
Cubic(xs, ys, zs, px, py) == [def |-> TRUE, at |-> <<px, py>>, ctrl |-> <<xs, ys, zs>>]

\* griddata((x, y), z, (grid_x, grid_y), method='cubic') when Qhull succeeds:
\* a new array of the mesh's shape.
GridData(xs, ys, zs, gx, gy, d) ==
  [i \in 1..Len(gx) |-> [j \in 1..Len(gx[i]) |->
     IF InHull(xs, ys, gx[i][j], gy[i][j], d)
       THEN Cubic(xs, ys, zs, gx[i][j], gy[i][j])
       ELSE NaN]]

\* OutsideTank with >= for >: the boundary circle would be masked too.
OutsideTankClosed(px, py, r, d) == px * px + py * py >= r * r * d * d

\* grid_x**2 + grid_y**2 > radius**2 at one node, over the denominator d.
OutsideTank(px, py, r, d) == px * px + py * py > r * r * d * d

\* CircularMask that tests grid_x alone: the corners of the mesh would keep
\* their heights.
CircularMaskXOnly(gz, gx, gy, r, d) ==
  [i \in 1..Len(gz) |-> [j \in 1..Len(gz[i]) |->
     IF gx[i][j] * gx[i][j] > r * r * d * d THEN NaN ELSE gz[i][j]]]

\* grid_z[grid_x**2 + grid_y**2 > radius**2] = np.nan
CircularMask(gz, gx, gy, r, d) ==
  [i \in 1..Len(gz) |-> [j \in 1..Len(gz[i]) |->
     IF OutsideTank(gx[i][j], gy[i][j], r, d) THEN NaN ELSE gz[i][j]]]

\* InsideTank with < for <=: a sample on the boundary would get no label.
InsideTankStrict(sx, sy, r) == sx * sx + sy * sy < r * r

\* x[idx]**2 + y[idx]**2 <= radius**2
InsideTank(sx, sy, r) == sx * sx + sy * sy <= r * r

\* go.Surface(x=grid_x, y=grid_y, z=grid_z, ...)
Surface(gx, gy, gz) == [type |-> "surface", x |-> gx, y |-> gy, z |-> gz]

\* f"A{idx+1}" for the 0-based loop index idx.
LabelText(i) == "A" \o ToString(i + 1)

\* go.Scatter3d(x=[x[idx]], y=[y[idx]], z=[z[idx]+0.2], mode='text', text=[...])
Scatter3d(xs, ys, zs, i) ==
  [type |-> "scatter3d", mode |-> "text",
   x |-> xs[i + 1], y |-> ys[i + 1], z |-> zs[i + 1] + LabelOffset,
   text |-> LabelText(i)]

VARIABLES
  data,         \* the input table, or None
  x, y, z,      \* its columns, read on every script run with data
  radius,       \* sidebar: tank radius
  grid_points,  \* sidebar: mesh resolution
  show_labels,  \* sidebar: label checkbox
  pc,           \* where the script run started by the button stands
  grid_x,       \* mesh x numerators, or None before the button run builds them
  grid_y,       \* mesh y numerators
  grid_z,       \* the height grid, or None
  interp_z,     \* what griddata returned, before the mask wrote into it
  passed,       \* the arguments griddata was called with, or None
  error,        \* st.error of the except clause was shown
  fig,          \* the figure's traces (fig.data), or None
  idx,          \* label loop index (0-based)
  chart,        \* the figure handed to st.plotly_chart, or None
  download,     \* the table offered by st.download_button, or None
  stages        \* the stages this script run has completed, in order

vars == <<data, x, y, z, radius, grid_points, show_labels, pc, grid_x, grid_y,
          grid_z, interp_z, passed, error, fig, idx, chart, download, stages>>

inputs == <<data, x, y, z, radius, grid_points, show_labels>>

run == <<grid_x, grid_y, grid_z, interp_z, passed, error, fig, idx, chart,
         download, stages>>

\* A script run rebuilds the page: nothing of an earlier run is bound or shown.
FreshRun ==
  /\ grid_x' = None /\ grid_y' = None /\ grid_z' = None
  /\ interp_z' = None /\ passed' = None
  /\ error' = FALSE /\ fig' = None /\ idx' = 0
  /\ chart' = None /\ download' = None /\ stages' = <<>>

\* The page as first served: upload mode with no file, the label box ticked.
Init ==
  /\ data = None /\ x = None /\ y = None /\ z = None
  /\ radius \in Radii
  /\ grid_points \in Resolutions
  /\ show_labels = TRUE
  /\ pc = "idle"
  /\ grid_x = None /\ grid_y = None /\ grid_z = None
  /\ interp_z = None /\ passed = None
  /\ error = FALSE /\ fig = None /\ idx = 0
  /\ chart = None /\ download = None /\ stages = <<>>

\* st.sidebar.number_input: a new radius reruns the script without the button.
SetRadius ==
  /\ pc = "idle"
  /\ \E r \in Radii : r # radius /\ radius' = r
  /\ FreshRun
  /\ UNCHANGED <<data, x, y, z, grid_points, show_labels, pc>>

\* st.sidebar.slider: a new resolution.
SetGridPoints ==
  /\ pc = "idle"
  /\ \E n \in Resolutions : n # grid_points /\ grid_points' = n
  /\ FreshRun
  /\ UNCHANGED <<data, x, y, z, radius, show_labels, pc>>

\* st.sidebar.checkbox: the label box is toggled.
SetShowLabels ==
  /\ pc = "idle"
  /\ show_labels' = ~show_labels
  /\ FreshRun
  /\ UNCHANGED <<data, x, y, z, radius, grid_points, pc>>

\* Upload mode, a spreadsheet is put into the empty uploader and read: data
\* and its columns are set.  A table without rows stops the script at the range
\* line (min of an empty array) before the button, so tables have a row.
UploadExcel ==
  /\ pc = "idle"
  /\ data = None
  /\ \E d \in Tables(MaxSamples) :
       /\ data' = d
       /\ x' = Column(d, "X") /\ y' = Column(d, "Y") /\ z' = Column(d, "Z")
  /\ FreshRun
  /\ UNCHANGED <<radius, grid_points, show_labels, pc>>

\* Upload mode with the file removed or unreadable: data stays None and the
\* script only asks for data.
NoUpload ==
  /\ pc = "idle"
  /\ data # None
  /\ data' = None /\ x' = None /\ y' = None /\ z' = None
  /\ FreshRun
  /\ UNCHANGED <<radius, grid_points, show_labels, pc>>

\* Manual mode: the data editor's table of 24 zero rows.
ManualInput ==
  /\ pc = "idle"
  /\ data # ManualTable
  /\ data' = ManualTable
  /\ x' = Column(ManualTable, "X")
  /\ y' = Column(ManualTable, "Y")
  /\ z' = Column(ManualTable, "Z")
  /\ FreshRun
  /\ UNCHANGED <<radius, grid_points, show_labels, pc>>

\* The button is pressed: the mesh is built and grid_z is bound to None.
Execute ==
  /\ pc = "idle"
  /\ data # None
  /\ LET xs == Linspace(-radius, radius, grid_points)
         ys == Linspace(-radius, radius, grid_points)
     IN  /\ grid_x' = MeshX(xs, ys)
         /\ grid_y' = MeshY(xs, ys)
  /\ grid_z' = None
  /\ interp_z' = None /\ passed' = None
  /\ error' = FALSE /\ fig' = None /\ idx' = 0
  /\ chart' = None /\ download' = None
  /\ stages' = <<"mesh">>
  /\ pc' = "griddata"
  /\ UNCHANGED inputs

\* GridDataReturn over a table pruned to the footprint first.
GridDataReturnPruned ==
  /\ pc = "griddata"
  /\ ~QhullError(x, y)
  /\ LET keep == { k \in 1..Len(x) : InsideTank(x[k], y[k], radius) }
         Pruned(col) == SelectSeq([k \in 1..Len(x) |-> IF k \in keep THEN <<col[k]>> ELSE <<>>],
                                  LAMBDA e : e # <<>>)
         px == [k \in 1..Len(Pruned(x)) |-> Pruned(x)[k][1]]
         py == [k \in 1..Len(Pruned(y)) |-> Pruned(y)[k][1]]
         pz == [k \in 1..Len(Pruned(z)) |-> Pruned(z)[k][1]]
     IN  /\ grid_z' = GridData(px, py, pz, grid_x, grid_y, Den(grid_points))
         /\ passed' = [points |-> <<px, py>>, values |-> pz, xi |-> <<grid_x, grid_y>>]
  /\ interp_z' = grid_z'
  /\ stages' = Append(stages, "griddata")
  /\ pc' = "check"
  /\ UNCHANGED <<inputs, grid_x, grid_y, error, fig, idx, chart, download>>

\* try: griddata returns a grid.
GridDataReturn ==
  /\ pc = "griddata"
  /\ ~QhullError(x, y)
  /\ grid_z' = GridData(x, y, z, grid_x, grid_y, Den(grid_points))
  /\ interp_z' = grid_z'
  /\ passed' = [points |-> <<x, y>>, values |-> z, xi |-> <<grid_x, grid_y>>]
  /\ stages' = Append(stages, "griddata")
  /\ pc' = "check"
  /\ UNCHANGED <<inputs, grid_x, grid_y, error, fig, idx, chart, download>>

\* GridDataRaise whose except clause also binds grid_z to a grid of NaN.
GridDataRaiseDefaultGrid ==
  /\ pc = "griddata"
  /\ QhullError(x, y)
  /\ passed' = [points |-> <<x, y>>, values |-> z, xi |-> <<grid_x, grid_y>>]
  /\ error' = TRUE
  /\ grid_z' = [i \in 1..Len(grid_x) |-> [j \in 1..Len(grid_x[i]) |-> NaN]]
  /\ stages' = Append(stages, "error")
  /\ pc' = "check"
  /\ UNCHANGED <<inputs, grid_x, grid_y, interp_z, fig, idx, chart, download>>

\* except Exception: griddata raised; the message is shown, grid_z stays None.
GridDataRaise ==
  /\ pc = "griddata"
  /\ QhullError(x, y)
  /\ passed' = [points |-> <<x, y>>, values |-> z, xi |-> <<grid_x, grid_y>>]
  /\ error' = TRUE
  /\ stages' = Append(stages, "error")
  /\ pc' = "check"
  /\ UNCHANGED <<inputs, grid_x, grid_y, grid_z, interp_z, fig, idx, chart, download>>

\* if grid_z is not None: the circular mask is written into grid_z.
Mask ==
  /\ pc = "check"
  /\ grid_z # None
  /\ grid_z' = CircularMask(grid_z, grid_x, grid_y, radius, Den(grid_points))
  /\ stages' = Append(stages, "mask")
  /\ pc' = "compose"
  /\ UNCHANGED <<inputs, grid_x, grid_y, interp_z, passed, error, fig, idx, chart, download>>

\* grid_z is None: the rendering block is skipped and the run ends.
SkipRender ==
  /\ pc = "check"
  /\ grid_z = None
  /\ pc' = "idle"
  /\ UNCHANGED <<inputs, run>>

\* Compose that treats a grid without a defined cell as a failure.
ComposeRejectsEmpty ==
  /\ pc = "compose"
  /\ IF \A i \in 1..Len(grid_z) : \A j \in 1..Len(grid_z[i]) : grid_z[i][j] = NaN
       THEN /\ error' = TRUE
            /\ pc' = "idle"
            /\ UNCHANGED <<fig, idx, stages>>
       ELSE /\ fig' = <<Surface(grid_x, grid_y, grid_z)>>
            /\ idx' = 0
            /\ stages' = Append(stages, "compose")
            /\ pc' = "labels"
            /\ UNCHANGED error
  /\ UNCHANGED <<inputs, grid_x, grid_y, grid_z, interp_z, passed, chart, download>>

\* trace, layout and fig = go.Figure(data=[trace], layout=layout).
Compose ==
  /\ pc = "compose"
  /\ fig' = <<Surface(grid_x, grid_y, grid_z)>>
  /\ idx' = 0
  /\ stages' = Append(stages, "compose")
  /\ pc' = "labels"
  /\ UNCHANGED <<inputs, grid_x, grid_y, grid_z, interp_z, passed, error, chart, download>>

\* LabelAdd that numbers the labels it emits instead of the samples.
LabelAddRenumbered ==
  /\ pc = "labels"
  /\ show_labels
  /\ idx < Len(x)
  /\ InsideTank(x[idx + 1], y[idx + 1], radius)
  /\ fig' = Append(fig, [Scatter3d(x, y, z, idx) EXCEPT !.text = "A" \o ToString(Len(fig))])
  /\ idx' = idx + 1
  /\ UNCHANGED <<inputs, pc, grid_x, grid_y, grid_z, interp_z, passed, error, chart,
                 download, stages>>

\* One pass of the label loop for a sample inside the footprint.
LabelAdd ==
  /\ pc = "labels"
  /\ show_labels
  /\ idx < Len(x)
  /\ InsideTank(x[idx + 1], y[idx + 1], radius)
  /\ fig' = Append(fig, Scatter3d(x, y, z, idx))
  /\ idx' = idx + 1
  /\ UNCHANGED <<inputs, pc, grid_x, grid_y, grid_z, interp_z, passed, error, chart,
                 download, stages>>

\* One pass of the label loop for a sample outside the footprint.
LabelSkip ==
  /\ pc = "labels"
  /\ show_labels
  /\ idx < Len(x)
  /\ ~InsideTank(x[idx + 1], y[idx + 1], radius)
  /\ idx' = idx + 1
  /\ UNCHANGED <<inputs, pc, grid_x, grid_y, grid_z, interp_z, passed, error, fig,
                 chart, download, stages>>

\* The loop is over, or labels are off: st.plotly_chart(fig).
PlotlyChart ==
  /\ pc = "labels"
  /\ (~show_labels \/ idx = Len(x))
  /\ chart' = fig
  /\ stages' = Append(stages, "chart")
  /\ pc' = "download"
  /\ UNCHANGED <<inputs, grid_x, grid_y, grid_z, interp_z, passed, error, fig, idx,
                 download>>

\* st.download_button(..., data.to_csv(...)): the run ends.
DownloadButton ==
  /\ pc = "download"
  /\ download' = data
  /\ stages' = Append(stages, "download")
  /\ pc' = "idle"
  /\ UNCHANGED <<inputs, grid_x, grid_y, grid_z, interp_z, passed, error, fig, idx,
                 chart>>

Next ==
  \/ SetRadius
  \/ SetGridPoints
  \/ SetShowLabels
  \/ UploadExcel
  \/ NoUpload
  \/ ManualInput
  \/ Execute
  \/ GridDataReturn
  \/ GridDataRaise
  \/ Mask
  \/ SkipRender
  \/ Compose
  \/ LabelAdd
  \/ LabelSkip
  \/ PlotlyChart
  \/ DownloadButton

Spec == Init /\ [][Next]_vars

(***************************************************************************)
(* Helpers of the properties.                                              *)
(***************************************************************************)

\* The stage name occurs in the log of the current run.
Ran(stage) == \E k \in 1..Len(stages) : stages[k] = stage

\* The mask has been written into grid_z.
Masked == grid_z # None /\ pc # "check"

\* The node of row i, column j lies outside the tank: x^2 + y^2 > radius^2,
\* the coordinates being numerators over Den(grid_points).
NodeOutside(i, j) ==
  grid_x[i][j] * grid_x[i][j] + grid_y[i][j] * grid_y[i][j]
    > radius * radius * Den(grid_points) * Den(grid_points)

\* The cells of a grid.
Cells(g) == { <<i, j>> \in (1..Len(g)) \X (1..Len(g)) : j <= Len(g[i]) }

(***************************************************************************)
(* C1  Once the mask has been applied, every mesh cell whose node lies     *)
(* outside the tank circle is NaN, whatever griddata had put there; this   *)
(* holds of grid_z and of the surface handed to the figure and the chart.  *)
(***************************************************************************)
C1_OutsideIsNaN ==
  /\ Masked =>
       \A c \in Cells(grid_z) : NodeOutside(c[1], c[2]) => grid_z[c[1]][c[2]] = NaN
  /\ fig # None =>
       \A c \in Cells(fig[1].z) : NodeOutside(c[1], c[2]) => fig[1].z[c[1]][c[2]] = NaN
  /\ chart # None =>
       \A c \in Cells(chart[1].z) : NodeOutside(c[1], c[2]) => chart[1].z[c[1]][c[2]] = NaN

\* The composer is about to receive a grid in which griddata had given a
\* height to a node outside the tank.
C1_Witness ==
  /\ pc = "compose"
  /\ \E c \in Cells(grid_z) :
        /\ NodeOutside(c[1], c[2])
        /\ interp_z[c[1]][c[2]] # NaN
        /\ grid_z[c[1]][c[2]] = NaN

(***************************************************************************)
(* C2  When griddata raises, the failure message is shown, grid_z stays    *)
(* None, and the run ends without masking, composing a figure, showing a   *)
(* chart or offering a download.                                           *)
(***************************************************************************)
C2_FailureSkipsRender ==
  /\ (passed # None /\ interp_z = None) => error
  /\ error =>
       /\ grid_z = None /\ interp_z = None
       /\ fig = None /\ chart = None /\ download = None
       /\ stages = <<"mesh", "error">>
       /\ pc \in {"check", "idle"}

\* A run in which griddata raised has ended.
C2_Witness == error /\ pc = "idle" /\ passed # None

\* The distinct sample positions of the table.
Positions == { <<x[k], y[k]>> : k \in 1..Len(x) }

\* Three positions on one line (or not distinct).
OnOneLine(p, q, r) ==
  (q[1] - p[1]) * (r[2] - p[2]) = (q[2] - p[2]) * (r[1] - p[1])

\* The table holds three positions that form a triangle.
HasTriangle == \E p, q, r \in Positions : ~OnOneLine(p, q, r)

\* The table holds four distinct positions among which some three form a
\* triangle: "4 distinct non-collinear points".
HasFourNonCollinear == Cardinality(Positions) >= 4 /\ HasTriangle

\* The interpolation step of this run is over.
Interpolated == passed # None /\ pc # "griddata"

C3_WitnessCollinear ==
  Interpolated /\ Cardinality(Positions) = 3 /\ ~HasTriangle /\ error

\* The label annotations of a figure: its traces after the surface.
Annotations(f) == { m \in 2..Len(f) : f[m].type = "scatter3d" }

\* Sample k (1-based) lies in the footprint, boundary included.
SampleInside(k) == x[k] * x[k] + y[k] * y[k] <= radius * radius

\* The annotations of figure f that carry the label of sample k.
LabelsOf(f, k) == { m \in Annotations(f) : f[m].text = "A" \o ToString(k) }

(***************************************************************************)
(* C4  In the chart that is displayed: with labels on, each sample inside  *)
(* the footprint (boundary included) has exactly one annotation, a sample  *)
(* outside has none, the annotations are as many as the samples inside,    *)
(* and no error is raised for the skipped ones; with labels off the chart  *)
(* holds the surface alone.                                                *)
(***************************************************************************)
C4_LabelFilter ==
  chart # None =>
    /\ Len(chart) >= 1 /\ chart[1].type = "surface"
    /\ ~error
    /\ show_labels =>
         /\ \A k \in 1..Len(x) :
               Cardinality(LabelsOf(chart, k)) = (IF SampleInside(k) THEN 1 ELSE 0)
         /\ Cardinality(Annotations(chart))
              = Cardinality({ k \in 1..Len(x) : SampleInside(k) })
         /\ Len(chart) = 1 + Cardinality(Annotations(chart))
    /\ ~show_labels => Len(chart) = 1

\* A chart drawn with labels on from a table that has a sample exactly on the
\* boundary (labelled) and a sample outside (skipped).
C4_Witness ==
  /\ chart # None /\ show_labels
  /\ \E k \in 1..Len(x) :
        /\ x[k] * x[k] + y[k] * y[k] = radius * radius
        /\ LabelsOf(chart, k) # {}
  /\ \E k \in 1..Len(x) : ~SampleInside(k) /\ LabelsOf(chart, k) = {}

\* A chart drawn with labels off from a table with samples inside the tank.
C4_WitnessOff ==
  chart # None /\ ~show_labels /\ \E k \in 1..Len(x) : SampleInside(k)

\* The sample an annotation belongs to: the one whose label it carries.
SampleOf(f, m) == CHOOSE k \in 1..Len(x) : f[m].text = "A" \o ToString(k)

(***************************************************************************)
(* C5  Every annotation of the figure carries the text A{k} of a sample at *)
(* 1-based position k of the input and is anchored at that sample's        *)
(* (x, y) with z raised by the fixed offset; annotations are in input      *)
(* order, and a skipped sample leaves a gap in the numbers: later labels   *)
(* keep their input positions.                                             *)
(***************************************************************************)
C5_LabelNumbering ==
  fig # None =>
    /\ \A m \in Annotations(fig) :
          \E k \in 1..Len(x) :
             /\ fig[m].text = "A" \o ToString(k)
             /\ fig[m].x = x[k] /\ fig[m].y = y[k]
             /\ fig[m].z = z[k] + LabelOffset
             /\ SampleInside(k)
             /\ k >= m - 1
    /\ \A m, n \in Annotations(fig) :
          m < n => SampleOf(fig, m) < SampleOf(fig, n)

\* A chart whose first sample was skipped and whose last sample is labelled
\* with its input position: the numbers have a gap.
C5_Witness ==
  /\ chart # None /\ show_labels /\ Len(x) >= 3
  /\ ~SampleInside(1)
  /\ \E m \in Annotations(chart) :
        /\ chart[m].text = "A" \o ToString(Len(x))
        /\ m - 1 < Len(x)

\* Every cell of the grid is NaN.
AllNaN(g) == \A c \in Cells(g) : g[c[1]][c[2]] = NaN

(***************************************************************************)
(* C6  A run whose interpolation succeeded but whose masked grid is NaN    *)
(* in every cell is no error: no failure message is shown and the run      *)
(* ends with the (empty) surface composed, displayed and the download      *)
(* offered; a failed interpolation differs in leaving no grid and no       *)
(* chart.                                                                  *)
(***************************************************************************)
C6_EmptyResultRenders ==
  /\ (Masked /\ AllNaN(grid_z)) =>
       /\ ~error
       /\ ~Ran("error")
       /\ pc \in {"compose", "labels", "download", "idle"}
       /\ pc \in {"labels", "download", "idle"} => (fig # None /\ fig[1].z = grid_z)
       /\ pc \in {"download", "idle"} => (chart # None /\ chart[1].z = grid_z)
       /\ pc = "idle" => (download # None /\ Ran("chart") /\ Ran("download"))
  /\ error => (grid_z = None /\ chart = None)

\* A run over a mesh with nodes inside the tank has ended with a chart of an
\* all-NaN surface.
C6_Witness ==
  /\ pc = "idle" /\ Masked /\ AllNaN(grid_z) /\ chart # None
  /\ \E c \in Cells(grid_z) : ~NodeOutside(c[1], c[2])

(***************************************************************************)
(* C7  The mesh of a run is grid_points x grid_points: column j of grid_x  *)
(* and row i of grid_y hold the j-th / i-th of grid_points evenly spaced   *)
(* coordinates; with grid_points >= 2 the first is -radius and the last    *)
(* +radius; with grid_points = 1 the mesh is one node.  A grid returned by *)
(* griddata, and the masked grid, have the same shape.                     *)
(***************************************************************************)
C7_MeshShape ==
  grid_x # None =>
    LET n == grid_points
        d == IF n = 1 THEN 1 ELSE n - 1
        Square(g) == Len(g) = n /\ \A i \in 1..n : Len(g[i]) = n
    IN  /\ Square(grid_x) /\ Square(grid_y)
        /\ \A i, j \in 1..n : grid_x[i][j] = grid_x[1][j] /\ grid_y[i][j] = grid_y[i][1]
        /\ \A i \in 1..n : grid_y[i][1] = grid_x[1][i]
        /\ \A j \in 1..(n - 1) : grid_x[1][j + 1] - grid_x[1][j] = 2 * radius
        /\ n >= 2 => (grid_x[1][1] = (-radius) * d /\ grid_x[1][n] = radius * d)
        /\ n = 1 => Cardinality({ <<grid_x[c[1]][c[2]], grid_y[c[1]][c[2]]>> :
                                    c \in Cells(grid_x) }) = 1
        /\ interp_z # None => Square(interp_z)
        /\ grid_z # None => Square(grid_z)
        /\ fig # None => (Square(fig[1].z) /\ fig[1].x = grid_x /\ fig[1].y = grid_y)

\* A grid of the largest resolution has been returned and masked.
C7_Witness ==
  /\ Masked /\ grid_points = MaxRes /\ Len(grid_z) = MaxRes
  /\ grid_x[1][1] = (-radius) * (MaxRes - 1)
  /\ grid_x[1][MaxRes] = radius * (MaxRes - 1)

\* A grid of resolution 1 has been returned: one node.
C7_WitnessOne == Masked /\ grid_points = 1 /\ Len(grid_z) = 1 /\ Len(grid_z[1]) = 1

(***************************************************************************)
(* C9  The mask is applied only after griddata has returned, and griddata  *)
(* is called with the whole table: the X, Y and Z columns of data, the     *)
(* samples outside the tank included, unchanged; the columns stay those of *)
(* data while the mask is applied.                                         *)
(***************************************************************************)
C9_MaskAfterFullInterpolation ==
  /\ \A k \in 1..Len(stages) :
        stages[k] = "mask" => \E m \in 1..(k - 1) : stages[m] = "griddata"
  /\ Masked => (interp_z # None /\ Ran("griddata"))
  /\ passed # None =>
       /\ passed.points = <<Column(data, "X"), Column(data, "Y")>>
       /\ passed.values = Column(data, "Z")
       /\ Len(passed.values) = Len(data)
  /\ data # None =>
       (x = Column(data, "X") /\ y = Column(data, "Y") /\ z = Column(data, "Z"))

\* The mask has been applied in a run whose table has a sample outside the
\* tank, and griddata had received that sample.
C9_Witness ==
  /\ Ran("mask")
  /\ \E k \in 1..Len(x) :
        /\ ~SampleInside(k)
        /\ passed.points[1][k] = data[k].X /\ passed.points[2][k] = data[k].Y

(***************************************************************************)
(* C10  The mask changes only cells outside the tank: a cell whose node    *)
(* has x^2 + y^2 <= radius^2 holds what griddata returned, a value or NaN, *)
(* so no NaN cell becomes defined; the sample arrays and the mesh are, all *)
(* through masking and scene composition, those griddata was called with.  *)
(***************************************************************************)
C10_MaskFrame ==
  Masked =>
    /\ \A c \in Cells(grid_z) :
          /\ ~NodeOutside(c[1], c[2]) => grid_z[c[1]][c[2]] = interp_z[c[1]][c[2]]
          /\ grid_z[c[1]][c[2]] # NaN => grid_z[c[1]][c[2]] = interp_z[c[1]][c[2]]
    /\ Cells(grid_z) = Cells(interp_z)
    /\ grid_x = passed.xi[1] /\ grid_y = passed.xi[2]
    /\ x = passed.points[1] /\ y = passed.points[2] /\ z = passed.values

\* After the mask: a node on the boundary circle keeps its height, a node
\* inside keeps its NaN, and a node outside lost its height.
C10_Witness ==
  /\ Masked /\ fig # None
  /\ \E c \in Cells(grid_z) :
        /\ grid_x[c[1]][c[2]] * grid_x[c[1]][c[2]] + grid_y[c[1]][c[2]] * grid_y[c[1]][c[2]]
             = radius * radius * Den(grid_points) * Den(grid_points)
        /\ grid_z[c[1]][c[2]] # NaN
  /\ \E c \in Cells(grid_z) :
        ~NodeOutside(c[1], c[2]) /\ interp_z[c[1]][c[2]] = NaN /\ grid_z[c[1]][c[2]] = NaN
  /\ \E c \in Cells(grid_z) :
        NodeOutside(c[1], c[2]) /\ interp_z[c[1]][c[2]] # NaN

====
